---- MODULE Spec2Model ----
(***************************************************************************)
(* Routing and delivery engine of the IoT message routing platform:        *)
(* MessageRoutingService.route_message (messages/services.py), the        *)
(* deliver_webhook task (messages/tasks.py) and the acknowledge endpoint   *)
(* (devices/views.py), over the tables of messages/models.py and          *)
(* devices/models.py; with them the inbox read, the discovery query, the   *)
(* device and message updates, Device.add_user and ensure_default_groups.  *)
(*                                                                         *)
(* Every database statement is one atomic step (Django autocommit, no      *)
(* ATOMIC_REQUESTS); Model.save() writes every column of the row from the  *)
(* in-memory object the handler loaded earlier.                            *)
(***************************************************************************)
EXTENDS Integers, Sequences, FiniteSets, Bags, TLC

(***************************************************************************)
(* Bounds of the model.                                                    *)
(***************************************************************************)
MaxRouteCalls == 2   \* calls of route_message
MaxAcks == 1         \* acknowledge requests in Spec, SpecRouting, SpecRetry
RacingAcks == 2      \* acknowledge requests in SpecAckRace
MaxRetryLimit == 3   \* Device.retry_limit ranges over 0..MaxRetryLimit
NumWorkers == 2      \* Celery worker processes
MaxAddCalls == 2     \* calls of Device.add_user
MaxBootCalls == 4    \* calls of ensure_default_groups

(***************************************************************************)
(* Text.  A Python str is a sequence of one-character strings.  A Python   *)
(* int is an unbounded natural, kept as its decimal digits, least          *)
(* significant first, without leading zeros (<<>> is 0).                   *)
(***************************************************************************)
HexLower == <<"0","1","2","3","4","5","6","7","8","9","a","b","c","d","e","f">>
HexUpper == <<"0","1","2","3","4","5","6","7","8","9","A","B","C","D","E","F">>

\* str.lower() / str.upper() on one character
LowerChar(c) ==
    CASE c = "A" -> "a" [] c = "B" -> "b" [] c = "C" -> "c" [] c = "D" -> "d"
      [] c = "E" -> "e" [] c = "F" -> "f" [] c = "X" -> "x" [] OTHER -> c
UpperChar(c) ==
    CASE c = "a" -> "A" [] c = "b" -> "B" [] c = "c" -> "C" [] c = "d" -> "D"
      [] c = "e" -> "E" [] c = "f" -> "F" [] c = "x" -> "X" [] OTHER -> c
Lower(s) == [i \in 1..Len(s) |-> LowerChar(s[i])]
Upper(s) == [i \in 1..Len(s) |-> UpperChar(s[i])]

Reverse(s) == [i \in 1..Len(s) |-> s[Len(s) + 1 - i]]

\* value of a digit character in the base, or -1
HexValue ==
    [c \in {HexLower[i] : i \in 1..16} \cup {HexUpper[i] : i \in 1..16} |->
        (CHOOSE i \in 1..16 : HexLower[i] = LowerChar(c)) - 1]
DigitValue(c, base) ==
    IF c \in DOMAIN HexValue /\ HexValue[c] < base THEN HexValue[c] ELSE -1

\* n * m + carry on least-significant-first decimal digits
RECURSIVE MulAdd(_, _, _)
MulAdd(n, m, carry) ==
    IF n = <<>>
    THEN IF carry = 0 THEN <<>> ELSE <<carry % 10>> \o MulAdd(<<>>, m, carry \div 10)
    ELSE LET v == n[1] * m + carry
         IN  <<v % 10>> \o MulAdd(Tail(n), m, v \div 10)

\* long division of most-significant-first decimal digits by m:
\* <<quotient digits (most significant first), remainder>>
RECURSIVE DivMSB(_, _, _)
DivMSB(msb, m, rem) ==
    IF msb = <<>> THEN << <<>>, rem >>
    ELSE LET v == rem * 10 + msb[1]
             r == DivMSB(Tail(msb), m, v % m)
         IN  << <<v \div m>> \o r[1], r[2] >>

RECURSIVE StripLeadingZeros(_)
StripLeadingZeros(msb) ==
    IF msb # <<>> /\ msb[1] = 0 THEN StripLeadingZeros(Tail(msb)) ELSE msb

\* the digits of n in the base, most significant first (<<>> for 0)
RECURSIVE DigitsInBase(_, _)
DigitsInBase(n, base) ==
    IF n = <<>> THEN <<>>
    ELSE LET qr == DivMSB(Reverse(n), base, 0)
         IN  DigitsInBase(Reverse(StripLeadingZeros(qr[1])), base) \o <<qr[2]>>

\* str(n)
IntToStr(n) ==
    IF n = <<>> THEN <<"0">> ELSE [i \in 1..Len(n) |-> HexLower[n[Len(n) + 1 - i] + 1]]
\* the hexadecimal digits ds (<<>> for 0) written with the alphabet:
\* format(n, 'x') and format(n, 'X')
HexText(ds, alphabet) ==
    IF ds = <<>> THEN <<"0">> ELSE [i \in 1..Len(ds) |-> alphabet[ds[i] + 1]]

\* str.strip(): leading and trailing blanks removed
RECURSIVE LStrip(_)
LStrip(s) == IF s # <<>> /\ s[1] = " " THEN LStrip(Tail(s)) ELSE s
Strip(s) == Reverse(LStrip(Reverse(LStrip(s))))
\* str.replace('-', '')
RemoveHyphens(s) == SelectSeq(s, LAMBDA c : c # "-")

StartsWith0x(s) == Len(s) >= 2 /\ s[1] = "0" /\ s[2] = "x"

\* accumulate digit characters, most significant first, onto acc
RECURSIVE ParseDigits(_, _, _)
ParseDigits(s, base, acc) ==
    IF s = <<>> THEN acc
    ELSE ParseDigits(Tail(s), base, MulAdd(acc, base, DigitValue(s[1], base)))

NoInt == <<-1>>   \* ValueError / None

\* int(text, base): surrounding blanks are ignored, base 16 accepts a 0x/0X
\* prefix, at least one digit is required
ParseInt(text, base) ==
    LET t == Strip(text)
        body == IF base = 16 /\ StartsWith0x(Lower(t)) THEN SubSeq(t, 3, Len(t)) ELSE t
    IN  IF body = <<>> \/ \E i \in 1..Len(body) : DigitValue(body[i], base) = -1
        THEN NoInt
        ELSE ParseDigits(body, base, <<>>)

(***************************************************************************)
(* Python values that reach the NID code: None, a str or an int.           *)
(***************************************************************************)
PyNone == [t |-> "none", s |-> <<>>, n |-> <<>>]
PyStr(s) == [t |-> "str", s |-> s, n |-> <<>>]
PyInt(n) == [t |-> "int", s |-> <<>>, n |-> n]

\* truth value, as used by `or`
Truthy(v) ==
    CASE v.t = "none" -> FALSE
      [] v.t = "str" -> v.s # <<>>
      [] v.t = "int" -> v.n # <<>>
\* str(value)
ToStr(v) == IF v.t = "int" THEN IntToStr(v.n) ELSE v.s

\* messages/utils.py normalize_nid: the integer, or NoInt for None
normalize_nid(value) ==
    IF value.t = "none" THEN NoInt
    ELSE IF value.t = "int" THEN value.n
    ELSE LET text == RemoveHyphens(Strip(value.s))
         IN  IF text = <<>> THEN NoInt
             ELSE IF StartsWith0x(Lower(text)) THEN ParseInt(text, 16)
             ELSE ParseInt(text, 10)

\* variant: the value is matched as written and in decimal only
nid_variants_without_hex(value) ==
    IF value.t = "none" THEN {}
    ELSE LET nid_int == normalize_nid(value)
             raw_value == ToStr(value)
         IN  {raw_value, Lower(raw_value), Upper(raw_value)}
             \cup (IF nid_int # NoInt THEN {IntToStr(nid_int)} ELSE {})

\* messages/utils.py nid_variants: the spellings matched against Device.nid
nid_variants(value) ==
    IF value.t = "none" THEN {}
    ELSE LET nid_int == normalize_nid(value)
             raw_value == ToStr(value)
         IN  {raw_value, Lower(raw_value), Upper(raw_value)}
             \cup (IF nid_int # NoInt
                   THEN LET lower == HexText(DigitsInBase(nid_int, 16), HexLower)
                        IN  { IntToStr(nid_int),      \* str(nid_int)
                              <<"0","x">> \o lower,        \* hex(nid_int)
                              <<"0","X">> \o Upper(lower), \* hex(nid_int).upper(), f"0X{nid_int:X}"
                              <<"0","x">> \o Upper(lower) }  \* f"0x{nid_int:X}"
                   ELSE {})

\* services.py:39 broadcast_values
broadcast_values ==
    { <<"0","x","F","F","F","F","F","F","F","F">>,
      <<"0","x","f","f","f","f","f","f","f","f">>,
      <<"4","2","9","4","9","6","7","2","9","5">> }

(***************************************************************************)
(* Tables the routing engine reads: groups, owners, devices.               *)
(***************************************************************************)
Devices == {"A", "B", "C", "D", "E", "F"}

NoRadius == -1     \* NULL radius / radius_km
NoLocation == -1   \* NULL location; a location is a position in metres on a line

\* messages/models.py Group rows: every group type, with and without a radius
GroupTable ==
    [g \in {"g1", "g2", "g3", "g4", "g5", "g6", "g7", "g8"} |->
        CASE g = "g1" -> [group_type |-> "private", radius |-> NoRadius]
          [] g = "g2" -> [group_type |-> "location", radius |-> 1]
          [] g = "g3" -> [group_type |-> "open", radius |-> 1]
          [] g = "g4" -> [group_type |-> "open", radius |-> NoRadius]
          [] g = "g5" -> [group_type |-> "enhanced", radius |-> 1]
          [] g = "g6" -> [group_type |-> "exclusive", radius |-> NoRadius]
          [] g = "g7" -> [group_type |-> "data_logging", radius |-> NoRadius]
          [] g = "g8" -> [group_type |-> "location", radius |-> NoRadius]]
\* accounts/models.py Owner rows: radius_km NULL, 2 and 0
OwnerTable ==
    [o \in {"o1", "o2", "o3"} |->
        CASE o = "o1" -> [radius_km |-> NoRadius]
          [] o = "o2" -> [radius_km |-> 2]
          [] o = "o3" -> [radius_km |-> 0]]

\* variant: every group type filters by NID
uses_nid_always(group) == GroupTable[group].group_type # ""

\* messages/models.py Group.uses_nid
uses_nid(group) ==
    GroupTable[group].group_type \in {"private", "exclusive", "data_logging", "enhanced", "location"}
\* variant: open groups are not filtered by distance
uses_distance_not_open(group) ==
    GroupTable[group].group_type \in {"enhanced", "location"}

\* messages/models.py Group.uses_distance
uses_distance(group) ==
    GroupTable[group].group_type \in {"open", "enhanced", "location"}

\* devices/models.py Device rows; retry_limit of the webhook target B and the
\* active flag of C are drawn in Init.  A is the source; B spells A's NID in
\* hexadecimal, C in decimal, D carries the broadcast NID, E has another NID,
\* F is inactive.  C and D have no webhook URL.
DeviceRow(group, active, nid, webhook_url, retry_limit) ==
    [group |-> group, active |-> active, nid |-> nid, location |-> NoLocation,
     webhook_url |-> webhook_url, retry_limit |-> retry_limit, owner |-> "o1"]
DeviceTable(rb, c_active) ==
    [d \in Devices |->
        CASE d = "A" -> DeviceRow("g1", TRUE, PyStr(<<"1","1","9","3","0","4","6">>), "", 3)
          [] d = "B" -> DeviceRow("g1", TRUE, PyStr(<<"0","x","1","2","3","4","5","6">>), "http://b/hook", rb)
          [] d = "C" -> DeviceRow("g1", c_active, PyStr(<<"1","1","9","3","0","4","6">>), "", 3)
          [] d = "D" -> DeviceRow("g1", TRUE, PyStr(<<"4","2","9","4","9","6","7","2","9","5">>), "", 3)
          [] d = "E" -> DeviceRow("g1", TRUE, PyStr(<<"9","9","9","9","9","9","9">>), "http://e/hook", 3)
          [] d = "F" -> DeviceRow("g1", FALSE, PyStr(<<"1","1","9","3","0","4","6">>), "http://f/hook", 3)]

\* ST_DistanceSphere of two locations, in metres
Distance(a, b) == IF a >= b THEN a - b ELSE b - a

\* variant: step 1 keeps inactive devices
route_candidates_any_active(devs, payload_nid, source_device) ==
    LET src == devs[source_device]
        group == src.group
        step1 == {d \in Devices : devs[d].group = group /\ d # source_device}
        message_nid == IF Truthy(payload_nid) THEN payload_nid ELSE src.nid
        nid_values == nid_variants(message_nid)
        step2 == IF uses_nid(group) /\ nid_values # {}
                 THEN {d \in step1 : devs[d].nid.t = "str"
                                     /\ (devs[d].nid.s \in nid_values \/ devs[d].nid.s \in broadcast_values)}
                 ELSE step1
        radius_km == IF OwnerTable[src.owner].radius_km # NoRadius
                     THEN OwnerTable[src.owner].radius_km ELSE GroupTable[group].radius
    IN  IF uses_distance(group) /\ src.location # NoLocation /\ radius_km # NoRadius
        THEN {d \in step2 : devs[d].location # NoLocation
                            /\ Distance(devs[d].location, src.location) <= radius_km * 1000}
        ELSE step2

\* services.py route_message, steps 1-3: the candidates queryset
route_candidates(devs, payload_nid, source_device) ==
    LET src == devs[source_device]
        group == src.group
        step1 == {d \in Devices : devs[d].group = group /\ devs[d].active /\ d # source_device}
        message_nid == IF Truthy(payload_nid) THEN payload_nid ELSE src.nid
        nid_values == nid_variants(message_nid)
        step2 == IF uses_nid(group) /\ nid_values # {}
                 THEN {d \in step1 : devs[d].nid.t = "str"
                                     /\ (devs[d].nid.s \in nid_values \/ devs[d].nid.s \in broadcast_values)}
                 ELSE step1
        radius_km == IF OwnerTable[src.owner].radius_km # NoRadius
                     THEN OwnerTable[src.owner].radius_km ELSE GroupTable[group].radius
    IN  IF uses_distance(group) /\ src.location # NoLocation /\ radius_km # NoRadius
        THEN {d \in step2 : devs[d].location # NoLocation
                            /\ Distance(devs[d].location, src.location) <= radius_km * 1000}
        ELSE step2

\* services.py:82-114 get_devices_in_network_range: the queryset returned
get_devices_in_network_range(devs, device) ==
    LET dev == devs[device]
        group == dev.group
        step1 == {d \in Devices : devs[d].group = group /\ devs[d].active}
        nid_values == nid_variants(dev.nid)
        step2 == IF uses_nid(group) /\ Truthy(dev.nid) /\ nid_values # {}
                 THEN {d \in step1 : devs[d].nid.t = "str"
                                     /\ (devs[d].nid.s \in nid_values \/ devs[d].nid.s \in broadcast_values)}
                 ELSE step1
        radius_km == IF OwnerTable[dev.owner].radius_km # NoRadius
                     THEN OwnerTable[dev.owner].radius_km ELSE GroupTable[group].radius
        step3 == IF uses_distance(group) /\ dev.location # NoLocation /\ radius_km # NoRadius
                 THEN {d \in step2 : devs[d].location # NoLocation
                                     /\ Distance(devs[d].location, dev.location) <= radius_km * 1000}
                 ELSE step2
    IN  step3 \ {device}

\* list(candidates): the rows in an order the database chooses (no order_by)
Orders(S) == {o \in [1..Cardinality(S) -> S] : \A i, j \in 1..Cardinality(S) : o[i] = o[j] => i = j}

(***************************************************************************)
(* State.                                                                  *)
(***************************************************************************)
VARIABLES
    devices,    \* Device table
    messages,   \* Message table, message_id = index
    inbox,      \* DeviceInbox table, id = index
    queue,      \* Celery broker: bag of queued deliver_webhook tasks
    worker,     \* Celery worker processes executing deliver_webhook
    router,     \* calls of route_message
    acker,      \* requests to acknowledge_message
    clock,      \* timezone.now()
    http,       \* per inbox id: webhook POSTs sent, 2xx answers received and
                \* the terminal status deliver_webhook has saved ("" if none)
    response,   \* the answer of the latest read request (inbox listing or
                \* devices in range): the request and the rows returned
    users,      \* Device.users of one device: the set of associated users
    adder,      \* calls of Device.add_user on that device
    groups,     \* Group table: the rows in insertion order
    booter      \* calls of ensure_default_groups

\* the tables routing and delivery work on
engine == <<devices, messages, inbox, queue, worker, router, acker, clock, http, response>>
\* user associations and the group bootstrap
registry == <<users, adder, groups, booter>>

vars == <<devices, messages, inbox, queue, worker, router, acker, clock, http, response,
          users, adder, groups, booter>>

\* message_id values in use: one message is submitted
MessageIds == {1}

Workers == 1..NumWorkers
Routers == 1..MaxRouteCalls
Ackers == DOMAIN acker

NoRow == [device |-> "", message |-> 0, status |-> "", delivery_attempts |-> 0,
          delivered_at |-> 0, acknowledged_at |-> 0]
NoMsg == [type |-> "", source_device |-> "", payload_nid |-> PyNone, read |-> FALSE,
          last_read_at |-> 0, last_modified_read |-> 0, acknowledge_status |-> ""]

NoResponse == [view |-> "", device |-> "", nid |-> PyNone, hid |-> "", body |-> {}]

IdleWorker == [pc |-> "idle", inbox_id |-> 0, row |-> NoRow]
IdleRouter == [pc |-> "idle", message |-> 0, todo |-> <<>>, created |-> <<>>, retried |-> FALSE]
IdleAcker == [pc |-> "idle", device |-> "", message_id |-> 0, inbox_id |-> 0,
              row |-> NoRow, msg |-> NoMsg]

\* devices/models.py:12
MAX_USERS == 6

Adders == 1..MaxAddCalls
Booters == 1..MaxBootCalls
IdleAdder == [pc |-> "idle", user |-> 0]
IdleBooter == [pc |-> "idle"]

\* the Group rows the devices refer to, as rows of the table
GroupKeys == <<"g1", "g2", "g3", "g4", "g5", "g6", "g7", "g8">>
GroupRows == [i \in 1..Len(GroupKeys) |-> GroupTable[GroupKeys[i]]]

\* no user is associated, the groups exist, no call is under way
RegistryAtRest ==
    /\ users = {}
    /\ adder = [a \in Adders |-> IdleAdder]
    /\ groups = GroupRows
    /\ booter = [b \in Booters |-> IdleBooter]

InitWith(c_active, acks) ==
    /\ RegistryAtRest
    /\ \E rb \in 0..MaxRetryLimit : devices = DeviceTable(rb, c_active)
    /\ messages = <<>>
    /\ inbox = <<>>
    /\ queue = EmptyBag
    /\ worker = [w \in Workers |-> IdleWorker]
    /\ router = [r \in Routers |-> IdleRouter]
    /\ acker = [a \in 1..acks |-> IdleAcker]
    /\ clock = 0
    /\ http = <<>>
    /\ response = NoResponse

\* two routing targets (B, D)
Init == InitWith(FALSE, MaxAcks)
\* three routing targets (B, C, D)
InitRouting == InitWith(TRUE, MaxAcks)
\* two routing targets and acknowledge requests that can follow one another
\* or overlap
InitAckRace == InitWith(FALSE, RacingAcks)

Task(inbox_id, countdown) == [inbox_id |-> inbox_id, countdown |-> countdown]

\* rows of the DeviceInbox table for a (device, message) pair
EntryIds(d, m) == {i \in DOMAIN inbox : inbox[i].device = d /\ inbox[i].message = m}
EntriesOf(m) == {i \in DOMAIN inbox : inbox[i].message = m}

(***************************************************************************)
(* Message submission (messages/views.py create / messages_by_hid):        *)
(* serializer.save(source_device=device) inserts the Message row.          *)
(***************************************************************************)
CreateMessage(type, payload_nid) ==
    /\ Len(messages) + 1 \in MessageIds
    /\ messages' = Append(messages,
            [type |-> type, source_device |-> "A", payload_nid |-> payload_nid,
             read |-> FALSE, last_read_at |-> 0, last_modified_read |-> 0,
             acknowledge_status |-> ""])
    /\ UNCHANGED <<devices, inbox, queue, worker, router, acker, clock, http, response, registry>>

(***************************************************************************)
(* MessageRoutingService.route_message.                                    *)
(***************************************************************************)
\* services.py:26-57: the candidate query is evaluated by list(candidates)
RouteQuery(r, m) ==
    /\ router[r].pc = "idle"
    /\ \A r2 \in Routers : r2 < r => router[r2].pc # "idle"
    /\ m \in DOMAIN messages
    /\ LET targets == route_candidates(devices, messages[m].payload_nid, messages[m].source_device)
       IN  \E target_devices \in Orders(targets) :
              router' = [router EXCEPT ![r] =
                  [pc |-> IF targets = {} THEN "returned" ELSE "loop",
                   message |-> m, todo |-> target_devices, created |-> <<>>,
                   retried |-> targets # {} /\ \A d \in targets : EntryIds(d, m) # {}]]
    /\ UNCHANGED <<devices, messages, inbox, queue, worker, acker, clock, http, response, registry>>

\* views.py:120 and 316: the view routes the message it has just created
RouteBegin(r, m) ==
    /\ \A r2 \in Routers : router[r2].message # m
    /\ RouteQuery(r, m)

\* a caller routes a message again, during or after an earlier call for it
RouteRetry(r, m) ==
    /\ \E r2 \in Routers : router[r2].message = m
    /\ RouteQuery(r, m)

\* variant: route_message catches the database error and returns no entries
RouteQueryFailsSilently(r, m) ==
    /\ router[r].pc = "idle"
    /\ \A r2 \in Routers : r2 < r => router[r2].pc # "idle"
    /\ \A r2 \in Routers : router[r2].message # m
    /\ m \in DOMAIN messages
    /\ router' = [router EXCEPT ![r] = [IdleRouter EXCEPT !.pc = "returned", !.message = m]]
    /\ UNCHANGED <<devices, messages, inbox, queue, worker, acker, clock, http, response, registry>>

\* services.py:26-57: the database cannot execute the candidate query (lost
\* connection, geospatial function error); list(candidates) raises and the
\* exception leaves route_message, which has no handler
RouteQueryFails(r, m) ==
    /\ router[r].pc = "idle"
    /\ \A r2 \in Routers : r2 < r => router[r2].pc # "idle"
    /\ \A r2 \in Routers : router[r2].message # m
    /\ m \in DOMAIN messages
    /\ router' = [router EXCEPT ![r] = [IdleRouter EXCEPT !.pc = "unavailable", !.message = m]]
    /\ UNCHANGED <<devices, messages, inbox, queue, worker, acker, clock, http, response, registry>>

\* views.py:118-158 and 314-328: the HTTP status the submitting view answers
\* with once route_message has returned or raised (0 while it runs)
response_status(r) ==
    CASE router[r].pc = "returned" -> 201
      [] router[r].pc \in {"raised", "unavailable"} -> 500
      [] OTHER -> 0

\* models.py:123 unique_together = ['device', 'message']
UniqueViolation(d, m) == EntryIds(d, m) # {}

\* variant: only alarms are handed to the broker
ScheduleOnCreateAlarmOnly(device_row, message_row, inbox_id) ==
    IF device_row.webhook_url # "" /\ message_row.type = "alarm"
    THEN SetToBag({Task(inbox_id, 0)})
    ELSE EmptyBag

\* services.py:70-77: the tasks sent to the broker for a new entry
ScheduleOnCreate(device_row, message_row, inbox_id) ==
    IF device_row.webhook_url # ""
    THEN IF message_row.type = "alarm"
         THEN SetToBag({Task(inbox_id, 0)})      \* deliver_webhook.delay
         ELSE SetToBag({Task(inbox_id, 0)})      \* deliver_webhook.apply_async
    ELSE EmptyBag

\* services.py:61-79: one iteration of the loop; the IntegrityError of a
\* duplicate insert leaves route_message through the exception
RouteCreate(r) ==
    /\ router[r].pc = "loop"
    /\ LET d == Head(router[r].todo)
           m == router[r].message
           id == Len(inbox) + 1
       IN  IF UniqueViolation(d, m)
           THEN /\ router' = [router EXCEPT ![r].pc = "raised", ![r].todo = <<>>]
                /\ UNCHANGED <<inbox, queue, http>>
           ELSE /\ inbox' = Append(inbox,
                        [device |-> d, message |-> m, status |-> "pending",
                         delivery_attempts |-> 0, delivered_at |-> 0, acknowledged_at |-> 0])
                /\ http' = Append(http, [calls |-> 0, ok |-> 0, terminal |-> ""])
                /\ queue' = queue (+) ScheduleOnCreate(devices[d], messages[m], id)
                /\ router' = [router EXCEPT
                        ![r].todo = Tail(@),
                        ![r].created = Append(@, id),
                        ![r].pc = IF Tail(router[r].todo) = <<>> THEN "returned" ELSE "loop"]
    /\ UNCHANGED <<devices, messages, worker, acker, clock, response, registry>>

\* services.py:62-77: the entry is inserted and committed, then the broker
\* refuses the task (deliver_webhook.delay / apply_async raises); the
\* exception leaves route_message
RouteScheduleFails(r) ==
    /\ router[r].pc = "loop"
    /\ LET d == Head(router[r].todo)
           m == router[r].message
           id == Len(inbox) + 1
       IN  /\ ~UniqueViolation(d, m)
           /\ devices[d].webhook_url # ""
           /\ inbox' = Append(inbox,
                   [device |-> d, message |-> m, status |-> "pending",
                    delivery_attempts |-> 0, delivered_at |-> 0, acknowledged_at |-> 0])
           /\ http' = Append(http, [calls |-> 0, ok |-> 0, terminal |-> ""])
           /\ router' = [router EXCEPT ![r].pc = "raised", ![r].todo = <<>>,
                                       ![r].created = Append(@, id)]
    /\ UNCHANGED <<devices, messages, queue, worker, acker, clock, response, registry>>

(***************************************************************************)
(* deliver_webhook (messages/tasks.py).                                    *)
(***************************************************************************)
\* variant: the task does not look at the webhook URL
DeliverLoadAnyUrl(w, task) ==
    /\ worker[w].pc = "idle"
    /\ \A w2 \in Workers : w2 < w => worker[w2].pc # "idle"
    /\ BagIn(task, queue)
    /\ queue' = queue (-) SetToBag({task})
    /\ worker' = [worker EXCEPT ![w] =
            [pc |-> "post", inbox_id |-> task.inbox_id, row |-> inbox[task.inbox_id]]]
    /\ UNCHANGED <<devices, messages, inbox, router, acker, clock, http, response, registry>>

\* tasks.py:22-28: a worker takes a queued task, loads the DeviceInbox row and
\* its device; without a webhook URL the task ends at once
DeliverLoad(w, task) ==
    /\ worker[w].pc = "idle"
    /\ \A w2 \in Workers : w2 < w => worker[w2].pc # "idle"
    /\ BagIn(task, queue)
    /\ queue' = queue (-) SetToBag({task})
    /\ worker' = [worker EXCEPT ![w] =
            IF devices[inbox[task.inbox_id].device].webhook_url = ""
            THEN IdleWorker
            ELSE [pc |-> "post", inbox_id |-> task.inbox_id, row |-> inbox[task.inbox_id]]]
    /\ UNCHANGED <<devices, messages, inbox, router, acker, clock, http, response, registry>>

\* tasks.py:44-58: requests.post answered 2xx; inbox.save() writes the row
DeliverSuccess(w) ==
    /\ worker[w].pc = "post"
    /\ LET id == worker[w].inbox_id
           row == [worker[w].row EXCEPT !.status = "delivered", !.delivered_at = clock + 1]
       IN  /\ inbox' = [inbox EXCEPT ![id] = row]
           /\ http' = [http EXCEPT ![id].calls = @ + 1, ![id].ok = @ + 1, ![id].terminal = "delivered"]
    /\ clock' = clock + 1
    /\ worker' = [worker EXCEPT ![w] = IdleWorker]
    /\ UNCHANGED <<devices, messages, queue, router, acker, response, registry>>

\* tasks.py:88 countdown of self.retry
UnexpectedRetryCountdown == 60

\* tasks.py:64: the attempt budget is used up
RetriesExhausted(delivery_attempts, retry_limit) == delivery_attempts >= retry_limit

\* variant: the delay is computed from the count before the increment
retry_delay_before_increment(delivery_attempts) == 2 ^ (delivery_attempts - 1)

\* tasks.py:72: retry_delay = 2 ** inbox.delivery_attempts
RECURSIVE retry_delay(_)
retry_delay(delivery_attempts) ==
    IF delivery_attempts = 0 THEN 1 ELSE 2 * retry_delay(delivery_attempts - 1)

\* variant: a failed attempt below the limit schedules nothing
ScheduleRetryNone(inbox_id, delivery_attempts) == EmptyBag

\* variant: the retry is sent to the broker and self.retry is raised as well
ScheduleRetryTwice(inbox_id, delivery_attempts) ==
    SetToBag({Task(inbox_id, retry_delay(delivery_attempts))})
        (+) SetToBag({Task(inbox_id, UnexpectedRetryCountdown)})

\* tasks.py:76-80: the tasks sent to the broker after a failed attempt
ScheduleRetry(inbox_id, delivery_attempts) ==
    SetToBag({Task(inbox_id, retry_delay(delivery_attempts))})

\* tasks.py:60-81: requests.RequestException (non-2xx answer, connection
\* error or timeout)
DeliverFailure(w) ==
    /\ worker[w].pc = "post"
    /\ LET id == worker[w].inbox_id
           device == devices[worker[w].row.device]
           attempts == worker[w].row.delivery_attempts + 1
       IN  IF RetriesExhausted(attempts, device.retry_limit)
           THEN /\ inbox' = [inbox EXCEPT ![id] =
                       [worker[w].row EXCEPT !.delivery_attempts = attempts, !.status = "failed"]]
                /\ http' = [http EXCEPT ![id].calls = @ + 1, ![id].terminal = "failed"]
                /\ UNCHANGED queue
           ELSE /\ inbox' = [inbox EXCEPT ![id] =
                       [worker[w].row EXCEPT !.delivery_attempts = attempts]]
                /\ http' = [http EXCEPT ![id].calls = @ + 1]
                /\ queue' = queue (+) ScheduleRetry(id, attempts)
    /\ worker' = [worker EXCEPT ![w] = IdleWorker]
    /\ UNCHANGED <<devices, messages, router, acker, clock, response, registry>>

\* variant: an unexpected error is counted like a transport failure
DeliverUnexpectedCounted(w) == DeliverFailure(w)

\* tasks.py:86-88: any other exception raised before the request is sent;
\* self.retry puts the task back on the queue and nothing is saved
DeliverUnexpected(w) ==
    /\ worker[w].pc = "post"
    /\ queue' = queue (+) SetToBag({Task(worker[w].inbox_id, UnexpectedRetryCountdown)})
    /\ worker' = [worker EXCEPT ![w] = IdleWorker]
    /\ UNCHANGED <<devices, messages, inbox, router, acker, clock, http, response, registry>>

(***************************************************************************)
(* DeviceViewSet.acknowledge_message (devices/views.py).                   *)
(***************************************************************************)
\* variant: the entry is looked up with get_or_create
AckGetOrCreate(a, d, m) ==
    /\ acker[a].pc = "idle"
    /\ \A a2 \in Ackers : a2 < a => acker[a2].pc # "idle"
    /\ IF EntryIds(d, m) = {} /\ m \in DOMAIN messages
       THEN LET row == [device |-> d, message |-> m, status |-> "pending",
                        delivery_attempts |-> 0, delivered_at |-> 0, acknowledged_at |-> 0]
            IN  /\ inbox' = Append(inbox, row)
                /\ http' = Append(http, [calls |-> 0, ok |-> 0, terminal |-> ""])
                /\ acker' = [acker EXCEPT ![a] =
                        [pc |-> "entry", device |-> d, message_id |-> m,
                         inbox_id |-> Len(inbox) + 1, row |-> row, msg |-> NoMsg]]
       ELSE /\ acker' = [acker EXCEPT ![a] =
                    IF EntryIds(d, m) = {}
                    THEN [IdleAcker EXCEPT !.pc = "not_found"]
                    ELSE LET id == CHOOSE i \in EntryIds(d, m) : TRUE
                         IN  [pc |-> "entry", device |-> d, message_id |-> m, inbox_id |-> id,
                              row |-> inbox[id], msg |-> NoMsg]]
            /\ UNCHANGED <<inbox, http>>
    /\ UNCHANGED <<devices, messages, queue, worker, router, clock, response, registry>>

\* views.py:138-141 and 162-166: DeviceInbox.objects.get(device, message_id)
AckGet(a, d, m) ==
    /\ acker[a].pc = "idle"
    /\ \A a2 \in Ackers : a2 < a => acker[a2].pc # "idle"
    /\ acker' = [acker EXCEPT ![a] =
            IF EntryIds(d, m) = {}
            THEN [IdleAcker EXCEPT !.pc = "not_found"]
            ELSE LET id == CHOOSE i \in EntryIds(d, m) : TRUE
                 IN  [pc |-> "entry", device |-> d, message_id |-> m, inbox_id |-> id,
                      row |-> inbox[id], msg |-> NoMsg]]
    /\ UNCHANGED <<devices, messages, inbox, queue, worker, router, clock, http, response, registry>>

\* views.py:142-143: the fields the handler sets on the loaded entry
AckedRow(row, now) == [row EXCEPT !.status = "acknowledged", !.acknowledged_at = now]

\* views.py:142-147: inbox_entry.save() writes the row; inbox_entry.message
\* then loads the Message row
AckSaveEntry(a) ==
    /\ acker[a].pc = "entry"
    /\ inbox' = [inbox EXCEPT ![acker[a].inbox_id] = AckedRow(acker[a].row, clock + 1)]
    /\ clock' = clock + 1
    /\ acker' = [acker EXCEPT ![a].pc = "message",
                              ![a].row = AckedRow(acker[a].row, clock + 1),
                              ![a].msg = messages[acker[a].message_id]]
    /\ UNCHANGED <<devices, messages, queue, worker, router, http, response, registry>>

\* views.py:148-152: the fields the handler sets on the loaded message
AckedMessage(msg, now) ==
    [msg EXCEPT !.read = TRUE,
                !.last_read_at = IF msg.last_read_at = 0 THEN now ELSE @,
                !.last_modified_read = now,
                !.acknowledge_status = "YES"]

\* views.py:148-161: message.save() writes the row; 200 is returned
AckSaveMessage(a) ==
    /\ acker[a].pc = "message"
    /\ messages' = [messages EXCEPT ![acker[a].message_id] = AckedMessage(acker[a].msg, clock + 1)]
    /\ clock' = clock + 1
    /\ acker' = [acker EXCEPT ![a].pc = "done", ![a].row = NoRow]
    /\ UNCHANGED <<devices, inbox, queue, worker, router, http, response, registry>>

(***************************************************************************)
(* Specification.                                                          *)
(***************************************************************************)
MessageTypes == {"alert", "alarm"}
PayloadNids == {PyNone}

Next ==
    \/ \E type \in MessageTypes, nid \in PayloadNids : CreateMessage(type, nid)
    \/ \E r \in Routers, m \in MessageIds : RouteBegin(r, m)
    \/ \E r \in Routers : RouteCreate(r)
    \/ \E w \in Workers, task \in BagToSet(queue) : DeliverLoad(w, task)
    \/ \E w \in Workers : DeliverSuccess(w)
    \/ \E w \in Workers : DeliverFailure(w)
    \/ \E w \in Workers : DeliverUnexpected(w)
    \/ \E a \in Ackers, d \in Devices, m \in MessageIds : AckGet(a, d, m)
    \/ \E a \in Ackers : AckSaveEntry(a)
    \/ \E a \in Ackers : AckSaveMessage(a)

Spec == Init /\ [][Next]_vars

\* the same steps with several acknowledge requests
SpecAckRace == InitAckRace /\ [][Next]_vars

\* the same steps with a broker that can refuse a task
NextBroker ==
    \/ Next
    \/ \E r \in Routers : RouteScheduleFails(r)

SpecBroker == Init /\ [][NextBroker]_vars

\* routing with retrying callers, without acknowledgments
NextRouting ==
    \/ \E type \in MessageTypes, nid \in PayloadNids : CreateMessage(type, nid)
    \/ \E r \in Routers, m \in MessageIds : RouteBegin(r, m)
    \/ \E r \in Routers, m \in MessageIds : RouteRetry(r, m)
    \/ \E r \in Routers : RouteCreate(r)
    \/ \E w \in Workers, task \in BagToSet(queue) : DeliverLoad(w, task)
    \/ \E w \in Workers : DeliverSuccess(w)
    \/ \E w \in Workers : DeliverFailure(w)
    \/ \E w \in Workers : DeliverUnexpected(w)

SpecRouting == InitRouting /\ [][NextRouting]_vars

\* retrying callers with two routing targets
SpecRetry == Init /\ [][NextRouting]_vars

\* every attempt ends in a 2xx answer or in a transport failure
NextAnswered ==
    \/ \E type \in MessageTypes, nid \in PayloadNids : CreateMessage(type, nid)
    \/ \E r \in Routers, m \in MessageIds : RouteBegin(r, m)
    \/ \E r \in Routers : RouteCreate(r)
    \/ \E w \in Workers, task \in BagToSet(queue) : DeliverLoad(w, task)
    \/ \E w \in Workers : DeliverSuccess(w)
    \/ \E w \in Workers : DeliverFailure(w)
    \/ \E a \in Ackers, d \in Devices, m \in MessageIds : AckGet(a, d, m)
    \/ \E a \in Ackers : AckSaveEntry(a)
    \/ \E a \in Ackers : AckSaveMessage(a)

\* the Celery workers take every queued task, and requests.post returns
\* (tasks.py:49 timeout=10)
WorkersRun ==
    /\ WF_vars(\E w \in Workers, task \in BagToSet(queue) : DeliverLoad(w, task))
    /\ WF_vars(\E w \in Workers : DeliverSuccess(w) \/ DeliverFailure(w))

SpecLive == Init /\ [][NextAnswered]_vars /\ WorkersRun

(***************************************************************************)
(* Device update (devices/views.py DeviceViewSet, a ModelViewSet): a PUT or *)
(* PATCH that carries webhook_url.                                         *)
(***************************************************************************)
\* devices whose webhook URL is edited, and the values written (blank or set)
WebhookDevices == {"B"}
WebhookUrls == {"", "http://b/hook"}

\* serializers.py:406-410: setattr(instance, attr, value); instance.save()
UpdateWebhook(d, url) ==
    /\ devices' = [devices EXCEPT ![d].webhook_url = url]
    /\ UNCHANGED <<messages, inbox, queue, worker, router, acker, clock, http, response, registry>>

NextWebhook ==
    \/ Next
    \/ \E d \in WebhookDevices, url \in WebhookUrls : UpdateWebhook(d, url)

SpecWebhook == Init /\ [][NextWebhook]_vars

(***************************************************************************)
(* DeviceViewSet.inbox (devices/views.py): GET /api/devices/{id}/inbox/     *)
(* with the optional query parameters nid and hid.                         *)
(***************************************************************************)
\* devices/models.py:15 hid, unique per device: written as the device's key
DeviceHid == [d \in Devices |-> d]

\* views.py:101-117: the queryset the view serializes.  nid is None when the
\* parameter is absent, hid is "" when it is absent.
inbox_queryset(device, nid, hid) ==
    LET pending == {i \in DOMAIN inbox : inbox[i].device = device /\ inbox[i].status = "pending"}
        by_nid == IF Truthy(nid)
                  THEN {i \in pending : devices[inbox[i].device].nid = nid}   \* device__nid=nid
                  ELSE pending
    IN  IF hid # ""
        THEN {i \in by_nid : DeviceHid[inbox[i].device] = hid}                \* device__hid=hid
        ELSE by_nid

\* views.py:92-120: get_object finds active devices only; the response holds
\* the serialized queryset
ListPending(device, nid, hid) ==
    /\ devices[device].active
    /\ response' = [view |-> "inbox", device |-> device, nid |-> nid, hid |-> hid,
                    body |-> inbox_queryset(device, nid, hid)]
    /\ UNCHANGED <<devices, messages, inbox, queue, worker, router, acker, clock, http, registry>>

\* the requests made: the devices whose inbox is read and the parameters sent
\* (absent, blank, the NID of A, the NID of B; absent, the hid of A, of B)
InboxDevices == {"B", "D"}
InboxNidParams ==
    {PyNone, PyStr(<<>>), PyStr(<<"1","1","9","3","0","4","6">>), PyStr(<<"0","x","1","2","3","4","5","6">>)}
InboxHidParams == {"", "A", "B"}

NextInbox ==
    \/ Next
    \/ \E device \in InboxDevices, nid \in InboxNidParams, hid \in InboxHidParams :
          ListPending(device, nid, hid)

SpecInbox == Init /\ [][NextInbox]_vars

(***************************************************************************)
(* MessageViewSet.update_message_by_hid (messages/views.py): PATCH           *)
(* /api/messages/hid/{hid}/{id} with a partial MessageSerializer.          *)
(***************************************************************************)
\* serializers.py:32-38: fields of the serializer that are not read-only and
\* that the model carries
PatchableFields == {"type", "read", "acknowledge_status"}
\* values a PATCH sends for a field
PatchValues(field) ==
    CASE field = "type" -> MessageTypes
      [] field = "read" -> BOOLEAN
      [] field = "acknowledge_status" -> {"YES", "NO"}

\* views.py:196-218: the message of the device is loaded, the fields sent are
\* set on it and serializer.save() writes the row
PatchMessage(m, field, value) ==
    /\ m \in DOMAIN messages
    /\ devices[messages[m].source_device].active
    /\ messages' = [messages EXCEPT ![m] =
            CASE field = "type" -> [@ EXCEPT !.type = value]
              [] field = "read" -> [@ EXCEPT !.read = value]
              [] field = "acknowledge_status" -> [@ EXCEPT !.acknowledge_status = value]]
    /\ UNCHANGED <<devices, inbox, queue, worker, router, acker, clock, http, response, registry>>

NextPatch ==
    \/ Next
    \/ \E m \in MessageIds, field \in PatchableFields :
          \E value \in PatchValues(field) : PatchMessage(m, field, value)

SpecPatch == Init /\ [][NextPatch]_vars

(***************************************************************************)
(* Device.add_user (devices/models.py): the users associated with a device. *)
(***************************************************************************)
\* accounts Owner rows that can be associated
Users == 1..(MAX_USERS + 2)

\* models.py:79-80: self.users.count() is read and compared with MAX_USERS
AddUserCount(a, user) ==
    /\ adder[a].pc = "idle"
    /\ \A a2 \in Adders : a2 < a => adder[a2].pc # "idle"
    /\ adder' = [adder EXCEPT ![a] =
            [pc |-> IF Cardinality(users) >= MAX_USERS THEN "raised" ELSE "exists", user |-> user]]
    /\ UNCHANGED <<engine, users, groups, booter>>

\* models.py:81: self.users.filter(pk=user.pk).exists()
AddUserExists(a) ==
    /\ adder[a].pc = "exists"
    /\ adder' = [adder EXCEPT ![a].pc = IF adder[a].user \in users THEN "done" ELSE "add"]
    /\ UNCHANGED <<engine, users, groups, booter>>

\* models.py:82: self.users.add(user) inserts the association if it is missing
AddUserAdd(a) ==
    /\ adder[a].pc = "add"
    /\ users' = users \cup {adder[a].user}
    /\ adder' = [adder EXCEPT ![a].pc = "done"]
    /\ UNCHANGED <<engine, groups, booter>>

\* a device with 0..MAX_USERS users from earlier calls
InitUsers ==
    /\ devices = DeviceTable(3, FALSE)
    /\ messages = <<>> /\ inbox = <<>> /\ queue = EmptyBag /\ http = <<>>
    /\ worker = [w \in Workers |-> IdleWorker]
    /\ router = [r \in Routers |-> IdleRouter]
    /\ acker = [a \in 1..MaxAcks |-> IdleAcker]
    /\ clock = 0
    /\ response = NoResponse
    /\ \E n \in 0..MAX_USERS : users = 1..n
    /\ adder = [a \in Adders |-> IdleAdder]
    /\ groups = GroupRows
    /\ booter = [b \in Booters |-> IdleBooter]

NextUsers ==
    \/ \E a \in Adders, user \in Users : AddUserCount(a, user)
    \/ \E a \in Adders : AddUserExists(a)
    \/ \E a \in Adders : AddUserAdd(a)

SpecUsers == InitUsers /\ [][NextUsers]_vars

(***************************************************************************)
(* The candidate filter over varied device data: the source A and the      *)
(* candidates B and C are drawn from the sets below, D, E and F are        *)
(* inactive devices of another group.  One message is submitted and        *)
(* routed once.                                                            *)
(***************************************************************************)
\* Device.nid of the source
SourceNids ==
    { PyNone, PyStr(<<>>), PyStr(<<"1","1","9","3","0","4","6">>), PyStr(<<"0","x","1","2","3","4","5","6">>),
      PyStr(<<"0","x","F","F","F","F","F","F","F","F">>), PyStr(<<"4","2","9","4","9","6","7","2","9","5">>), PyStr(<<"0">>), PyStr(<<"0","x","A","B","C","D","E","F">>) }
\* Device.nid of a candidate
CandidateNids ==
    { PyNone, PyStr(<<>>), PyStr(<<"1","1","9","3","0","4","6">>), PyStr(<<"0","x","1","2","3","4","5","6">>),
      PyStr(<<"0","x","1","2","3","A","B","C">>), PyStr(<<"9","9","9","9","9","9","9">>), PyStr(<<"4","2","9","4","9","6","7","2","9","5">>),
      PyStr(<<"0","x","f","f","f","f","f","f","f","f">>), PyStr(<<"0","x","F","F","F","F","F","F","F","F">>), PyStr(<<"0">>),
      PyStr(<<"0","x","0">>), PyStr(<<"1","1","2","5","9","3","7","5">>), PyStr(<<"0","x","a","b","c","d","e","f">>) }
\* payload['nid'] of the message: absent, "", 0, "0", an int, two strs
FilterPayloadNids ==
    { PyNone, PyStr(<<>>), PyInt(<<>>), PyStr(<<"0">>), PyInt(<<6,4,0,3,9,1,1>>),
      PyStr(<<"9","9","9","9","9","9","9">>), PyStr(<<"0","x","F","F","F","F","F","F","F","F">>) }
\* group types for the NID cases
NidCaseGroups == {"g1", "g3", "g5", "g6", "g7", "g8"}
\* Device.location, metres along a line; NULL included
FilterLocations == {NoLocation, 0, 999, 1000, 1001, 2000, 2001}

OtherGroup(g) == IF g = "g1" THEN "g2" ELSE "g1"

\* the Device table of a case
FilterDevices(group, owner, a_nid, a_location, b_group, b_active, b_nid, b_location, c_location) ==
    [d \in Devices |->
        CASE d = "A" -> [group |-> group, active |-> TRUE, nid |-> a_nid, location |-> a_location,
                         webhook_url |-> "", retry_limit |-> 3, owner |-> owner]
          [] d = "B" -> [group |-> b_group, active |-> b_active, nid |-> b_nid, location |-> b_location,
                         webhook_url |-> "", retry_limit |-> 3, owner |-> "o1"]
          [] d = "C" -> [group |-> group, active |-> TRUE, nid |-> a_nid, location |-> c_location,
                         webhook_url |-> "http://c/hook", retry_limit |-> 3, owner |-> "o1"]
          [] OTHER -> [group |-> OtherGroup(group), active |-> FALSE, nid |-> a_nid,
                       location |-> a_location, webhook_url |-> "", retry_limit |-> 3, owner |-> "o1"]]

\* cases that vary the NIDs, group type, group membership and active flag
NidCases ==
    UNION { { FilterDevices(g, "o1", a_nid, NoLocation, b_group, b_active, b_nid, NoLocation, NoLocation) :
                a_nid \in SourceNids, b_nid \in CandidateNids,
                b_group \in {g, OtherGroup(g)}, b_active \in BOOLEAN } :
            g \in NidCaseGroups }
\* cases that vary the locations, the group radius and the owner radius
DistanceCases ==
    { FilterDevices(g, o, PyStr(<<"1","1","9","3","0","4","6">>), a_location, g, TRUE,
                    PyStr(<<"1","1","9","3","0","4","6">>), b_location, c_location) :
        g \in {"g1", "g2", "g3", "g4", "g5", "g8"}, o \in DOMAIN OwnerTable,
        a_location \in {NoLocation, 0}, b_location \in FilterLocations,
        c_location \in {NoLocation, 1000} }

InitFilter ==
    /\ RegistryAtRest
    /\ devices \in NidCases \cup DistanceCases
    /\ messages = <<>>
    /\ inbox = <<>>
    /\ queue = EmptyBag
    /\ worker = [w \in Workers |-> IdleWorker]
    /\ router = [r \in Routers |-> IdleRouter]
    /\ acker = [a \in 1..MaxAcks |-> IdleAcker]
    /\ clock = 0
    /\ http = <<>>
    /\ response = NoResponse

NextFilter ==
    \/ \E nid \in FilterPayloadNids : CreateMessage("alert", nid)
    \/ \E r \in Routers, m \in MessageIds : RouteBegin(r, m)
    \/ \E r \in Routers : RouteCreate(r)

SpecFilter == InitFilter /\ [][NextFilter]_vars

\* the candidate filter with a database that can fail to execute the query
NextUnavailable ==
    \/ NextFilter
    \/ \E r \in Routers, m \in MessageIds : RouteQueryFails(r, m)

SpecUnavailable == InitFilter /\ [][NextUnavailable]_vars

\* services.py:82-114: a caller asks for the devices in range of a device
NetworkRange(device) ==
    /\ response' = [view |-> "range", device |-> device, nid |-> PyNone, hid |-> "",
                    body |-> get_devices_in_network_range(devices, device)]
    /\ UNCHANGED <<devices, messages, inbox, queue, worker, router, acker, clock, http, registry>>

\* the devices the discovery query is asked about
RangeDevices == {"A", "B", "C"}

\* discovery queries over every device table of the candidate-filter cases
NextRange == \E device \in RangeDevices : NetworkRange(device)

SpecRange == InitFilter /\ [][NextRange]_vars

(***************************************************************************)
(* ensure_default_groups (messages/utils.py).                              *)
(***************************************************************************)
\* utils.py:6-13 DEFAULT_GROUPS; Group.radius and Group.nid default to NULL
DEFAULT_GROUPS ==
    << [group_type |-> "private", radius |-> NoRadius],
       [group_type |-> "exclusive", radius |-> NoRadius],
       [group_type |-> "open", radius |-> NoRadius],
       [group_type |-> "data_logging", radius |-> NoRadius],
       [group_type |-> "enhanced", radius |-> NoRadius],
       [group_type |-> "location", radius |-> NoRadius] >>

\* utils.py:18-19: Group.objects.exists(); False is returned when a row exists
BootExists(b) ==
    /\ booter[b].pc = "idle"
    /\ booter' = [booter EXCEPT ![b].pc = IF Len(groups) > 0 THEN "returned_false" ELSE "create"]
    /\ UNCHANGED <<engine, users, adder, groups>>

\* utils.py:21-24: the six rows are inserted in one transaction, which
\* commits; True is returned
BootCreate(b) ==
    /\ booter[b].pc = "create"
    /\ groups' = groups \o DEFAULT_GROUPS
    /\ booter' = [booter EXCEPT ![b].pc = "returned_true"]
    /\ UNCHANGED <<engine, users, adder>>

\* an installation without groups, hence without devices
InitBoot ==
    /\ devices = <<>>
    /\ messages = <<>> /\ inbox = <<>> /\ queue = EmptyBag /\ http = <<>>
    /\ worker = [w \in Workers |-> IdleWorker]
    /\ router = [r \in Routers |-> IdleRouter]
    /\ acker = [a \in 1..MaxAcks |-> IdleAcker]
    /\ clock = 0
    /\ response = NoResponse
    /\ users = {}
    /\ adder = [a \in Adders |-> IdleAdder]
    /\ groups = <<>>
    /\ booter = [b \in Booters |-> IdleBooter]

NextBoot ==
    \/ \E b \in Booters : BootExists(b)
    \/ \E b \in Booters : BootCreate(b)

SpecBoot == InitBoot /\ [][NextBoot]_vars

(***************************************************************************)
(* Properties.                                                             *)
(***************************************************************************)
\* the targets one call of route_message computes for message m
TargetsOf(m) == route_candidates(devices, messages[m].payload_nid, messages[m].source_device)
\* calls of route_message for m: made, and all finished
Routed(m) == \E r \in Routers : router[r].message = m
RoutingFinished(m) ==
    \A r \in Routers : router[r].message = m => router[r].pc \in {"returned", "raised"}

\* C1: there is at most one InboxEntry per (device, message) pair, and once
\* the calls of route_message for a message have finished, however many were
\* made and however they overlapped, the message has as many entries as one
\* call creates (one per target).
C1_OneEntryPerPairAndCount ==
    /\ \A i, j \in DOMAIN inbox :
          inbox[i].device = inbox[j].device /\ inbox[i].message = inbox[j].message => i = j
    /\ \A m \in DOMAIN messages :
          Routed(m) /\ RoutingFinished(m)
             => Cardinality(EntriesOf(m)) = Cardinality(TargetsOf(m))

\* C2: a call of route_message made when every target of the message already
\* has its entry ends without an error, creates no entry, schedules no
\* delivery and leaves the existing entries as they are.
C2_RetryIsHarmless ==
    [][\A r \in Routers :
          router[r].retried /\ RouteCreate(r)
             => router'[r].pc # "raised" /\ inbox' = inbox /\ queue' = queue]_vars

\* device row of the target of inbox entry i
TargetOf(i) == devices[inbox[i].device]
\* a step in which deliver_webhook handles the answer of the webhook
DeliverAnswer(w) == DeliverSuccess(w) \/ DeliverFailure(w)
\* queued or executing deliver_webhook tasks for inbox entry i
QueuedFor(i) == {t \in BagToSet(queue) : t.inbox_id = i}
RECURSIVE SumCopies(_)
SumCopies(tasks) ==
    IF tasks = {} THEN 0
    ELSE LET t == CHOOSE x \in tasks : TRUE IN CopiesIn(t, queue) + SumCopies(tasks \ {t})
Outstanding(i) ==
    SumCopies(QueuedFor(i)) + Cardinality({w \in Workers : worker[w].pc = "post" /\ worker[w].inbox_id = i})

\* C3: for every retry_limit >= 0, an entry all of whose attempts
\* transport-failed is never failed with delivery_attempts other than
\* retry_limit, never has delivery_attempts above retry_limit, and is failed
\* once an attempt has brought delivery_attempts to retry_limit.
C3_FailedExactlyAtRetryLimit ==
    \A i \in DOMAIN inbox :
        http[i].ok = 0 =>
            /\ inbox[i].delivery_attempts <= TargetOf(i).retry_limit
            /\ inbox[i].status = "failed" => inbox[i].delivery_attempts = TargetOf(i).retry_limit
            /\ (http[i].calls >= 1 /\ inbox[i].status # "acknowledged"
                  /\ inbox[i].delivery_attempts = TargetOf(i).retry_limit)
                 => inbox[i].status = "failed"

\* C4: once deliver_webhook has saved delivered or failed for an entry, no
\* attempt for it is queued or executing; and with retry_limit = 3 and a
\* webhook that never answers 2xx, at most three calls are made and exactly
\* three have been made when the entry is set to failed.
C4_TerminalStopsAttempts ==
    \A i \in DOMAIN inbox :
        /\ http[i].terminal # "" => Outstanding(i) = 0
        /\ (TargetOf(i).retry_limit = 3 /\ http[i].ok = 0)
              => /\ http[i].calls <= 3
                 /\ http[i].terminal = "failed" => http[i].calls = 3

\* C5: deliver_webhook changes the status of an entry only from pending, to
\* delivered or to failed; it never changes the status of an entry that is
\* acknowledged, delivered or failed.
C5_WorkerOnlyMovesPending ==
    [][\A w \in Workers :
          DeliverAnswer(w) =>
              LET i == worker[w].inbox_id
              IN  /\ inbox[i].status # "pending" => inbox'[i].status = inbox[i].status
                  /\ inbox'[i].status # inbox[i].status => inbox'[i].status \in {"delivered", "failed"}]_vars

\* C6: every inbox entry has at most one queued or executing delivery
\* attempt, and a step adds an attempt for an entry only when it creates the
\* entry or ends the attempt that was executing for it.
C6_OneOutstandingAttempt ==
    [][\A i \in DOMAIN inbox' :
          /\ Outstanding(i)' <= 1
          /\ (i \in DOMAIN inbox /\ SumCopies(QueuedFor(i))' > SumCopies(QueuedFor(i)))
                => \E w \in Workers : /\ worker[w].pc = "post" /\ worker[w].inbox_id = i
                                      /\ worker'[w].pc = "idle"]_vars
\* an entry has failed once, was retried, and its attempt was then put back
\* by the unexpected-error path
C6_Witness ==
    \E i \in DOMAIN inbox :
        /\ inbox[i].delivery_attempts >= 1
        /\ inbox[i].status = "pending"
        /\ Task(i, UnexpectedRetryCountdown) \in QueuedFor(i)
        /\ Outstanding(i) = 1

\* C7: acknowledging an entry sets its status to acknowledged, and
\* acknowledging an entry that was already acknowledged succeeds and leaves
\* its acknowledged_at as it was.
C7_AckIdempotent ==
    [][\A a \in Ackers :
          AckSaveEntry(a) =>
              LET i == acker[a].inbox_id
              IN  /\ inbox'[i].status = "acknowledged"
                  /\ acker[a].row.status = "acknowledged"
                        => inbox'[i].acknowledged_at = inbox[i].acknowledged_at]_vars

\* C8: every successful acknowledge leaves the message read, with
\* acknowledge_status YES and last_modified_read refreshed, and last_read_at,
\* once set by the first acknowledgment, is never changed by a later one,
\* whether the acknowledgments follow one another or overlap.
C8_FirstReadKept ==
    [][/\ \A a \in Ackers :
             AckSaveMessage(a) =>
                 LET m == acker[a].message_id
                 IN  /\ messages'[m].read
                     /\ messages'[m].acknowledge_status = "YES"
                     /\ messages'[m].last_modified_read = clock'
                     /\ messages'[m].last_read_at # 0
       /\ \A m \in DOMAIN messages :
             messages[m].last_read_at # 0 => messages'[m].last_read_at = messages[m].last_read_at]_vars

\* C9: acknowledge for a (device, message) pair without an InboxEntry ends
\* not-found and changes nothing: no entry is created, no entry and no
\* message is modified, and the request does nothing afterwards.
C9_AckNotFoundChangesNothing ==
    [][\A a \in Ackers :
          /\ \A d \in Devices, m \in MessageIds :
                (AckGet(a, d, m) /\ EntryIds(d, m) = {})
                   => acker'[a].pc = "not_found" /\ inbox' = inbox /\ messages' = messages
          /\ acker[a].pc = "not_found" => acker'[a] = acker[a]]_vars
\* a request was answered not-found while the message had entries for other
\* devices and was not acknowledged by it
C9_Witness ==
    \E a \in Ackers :
        /\ acker[a].pc = "not_found"
        /\ inbox # <<>>
        /\ \E m \in DOMAIN messages : ~messages[m].read

\* C10: route_message puts exactly one delivery task on the queue for each
\* entry it creates whose target has a webhook URL, for alarms and alerts
\* alike, and none for a target without a webhook URL; that entry is created
\* pending and its status changes only by an acknowledgment.
C10_ScheduleOncePerWebhookEntry ==
    [][/\ \A r \in Routers :
             (RouteCreate(r) /\ Len(inbox') = Len(inbox) + 1) =>
                 \A i \in {Len(inbox) + 1} :
                     /\ inbox'[i].status = "pending"
                     /\ queue' = queue (+) (IF TargetOf(i)'.webhook_url # ""
                                           THEN SetToBag({Task(i, 0)}) ELSE EmptyBag)
       /\ \A i \in DOMAIN inbox :
             (TargetOf(i).webhook_url = "" /\ inbox'[i].status # inbox[i].status)
                => inbox[i].status = "pending" /\ inbox'[i].status = "acknowledged"]_vars
\* an alert was routed: the entry of the webhook target has been attempted,
\* the entry of the target without webhook was acknowledged
C10_Witness ==
    \E i, j \in DOMAIN inbox :
        /\ messages[inbox[i].message].type = "alert"
        /\ inbox[i].message = inbox[j].message
        /\ TargetOf(i).webhook_url # "" /\ http[i].calls >= 1
        /\ TargetOf(j).webhook_url = "" /\ http[j].calls = 0
        /\ inbox[j].status = "acknowledged"

\* ids the DeviceInbox table can hand out
EntryIdRange == 1..Cardinality(Devices)

\* C11: when tasks are executed fairly and every attempt ends in a 2xx answer
\* or a transport failure, every entry of a target with a webhook URL is
\* eventually acknowledged or eventually delivered or failed with no attempt
\* queued or executing for it.
C11_DeliveryTerminates ==
    \A i \in EntryIdRange :
        (i \in DOMAIN inbox /\ TargetOf(i).webhook_url # "")
            ~> (i \in DOMAIN inbox
                /\ \/ inbox[i].status = "acknowledged"
                   \/ inbox[i].status \in {"delivered", "failed"} /\ Outstanding(i) = 0)
\* an entry was set to failed after several failed attempts and nothing is
\* left for it
C11_Witness ==
    \E i \in DOMAIN inbox :
        /\ TargetOf(i).webhook_url # ""
        /\ http[i].terminal = "failed" /\ inbox[i].status = "failed"
        /\ http[i].calls >= 2 /\ http[i].ok = 0
        /\ Outstanding(i) = 0

\* the call of route_message for m has returned its entries
RoutingReturned(m) == \E r \in Routers : router[r].message = m /\ router[r].pc = "returned"
\* the devices that got an inbox entry for m
RoutedTargets(m) == {inbox[i].device : i \in EntriesOf(m)}
\* the row of the source device of m
SourceOf(m) == devices[messages[m].source_device]
\* active devices of the source's group other than the source
Members(m) ==
    {d \in Devices : /\ d # messages[m].source_device
                     /\ devices[d].active
                     /\ devices[d].group = SourceOf(m).group}
\* no distance predicate applies to m
NoDistanceInPlay(m) == ~uses_distance(SourceOf(m).group) \/ SourceOf(m).location = NoLocation
\* the broadcast sentinel 0xFFFFFFFF in its decimal, lower and upper spellings
BroadcastVariants == nid_variants(PyStr(<<"0","x","F","F","F","F","F","F","F","F">>))
\* the stored NID of a device as a set of strings (empty for NULL)
StoredNid(d) == IF devices[d].nid.t = "str" THEN {devices[d].nid.s} ELSE {}

\* C12: in a group that uses NIDs, with no distance predicate in play, for a
\* message without NID override from a source with a NID, an active device D2
\* of the group is a target if and only if the variants of the source NID
\* meet {D2.nid} plus the broadcast variants.
C12_NidTargetIffVariantsMeet ==
    \A m \in DOMAIN messages :
        (/\ RoutingReturned(m)
         /\ uses_nid(SourceOf(m).group) /\ NoDistanceInPlay(m)
         /\ messages[m].payload_nid = PyNone /\ Truthy(SourceOf(m).nid))
        => \A d2 \in Members(m) :
              d2 \in RoutedTargets(m)
                 <=> nid_variants(SourceOf(m).nid) \cap (StoredNid(d2) \cup BroadcastVariants) # {}

\* 32-bit values with their decimal spelling and their 0x-prefixed
\* hexadecimal spellings (upper-case and lower-case digits)
NidSpellings ==
    { [dec |-> <<"1","1","9","3","0","4","6">>, hex |-> {<<"0","x","1","2","3","4","5","6">>}],
      [dec |-> <<"1","1","9","4","6","8","4">>, hex |-> {<<"0","x","1","2","3","A","B","C">>, <<"0","x","1","2","3","a","b","c">>}],
      [dec |-> <<"9","9","9","9","9","9","9">>, hex |-> {<<"0","x","9","8","9","6","7","F">>, <<"0","x","9","8","9","6","7","f">>}],
      [dec |-> <<"4","2","9","4","9","6","7","2","9","5">>, hex |-> {<<"0","x","F","F","F","F","F","F","F","F">>, <<"0","x","f","f","f","f","f","f","f","f">>}],
      [dec |-> <<"0">>, hex |-> {<<"0","x","0">>}],
      [dec |-> <<"1","1","2","5","9","3","7","5">>, hex |-> {<<"0","x","A","B","C","D","E","F">>, <<"0","x","a","b","c","d","e","f">>}] }
\* the value a stored or effective NID string spells, if it is in the table
SpelledBy(text) == {v \in NidSpellings : text = v.dec \/ text \in v.hex}
BroadcastValue == {v \in NidSpellings : v.dec = <<"4","2","9","4","9","6","7","2","9","5">>}

\* C13: in a group that uses NIDs, when the effective NID of the message and
\* the stored NID of an active group member are the decimal and the
\* 0x-prefixed hexadecimal spelling of one 32-bit value, in either role, the
\* member is a target; a member whose stored NID spells a different value
\* that is not the broadcast value is not a target.
C13_HexDecimalEquivalence ==
    \A m \in DOMAIN messages :
        (RoutingReturned(m) /\ uses_nid(SourceOf(m).group)) =>
            LET eff == IF messages[m].payload_nid # PyNone
                       THEN messages[m].payload_nid ELSE SourceOf(m).nid
            IN  \A d2 \in Members(m) :
                   (eff.t = "str" /\ devices[d2].nid.t = "str") =>
                       /\ (/\ NoDistanceInPlay(m)
                           /\ \E v \in NidSpellings :
                                 \/ eff.s = v.dec /\ devices[d2].nid.s \in v.hex
                                 \/ eff.s \in v.hex /\ devices[d2].nid.s = v.dec)
                          => d2 \in RoutedTargets(m)
                       /\ (/\ SpelledBy(eff.s) # {}
                           /\ SpelledBy(devices[d2].nid.s) # {}
                           /\ SpelledBy(devices[d2].nid.s) # SpelledBy(eff.s)
                           /\ SpelledBy(devices[d2].nid.s) # BroadcastValue)
                          => d2 \notin RoutedTargets(m)
\* a message from a source with a hexadecimal NID reached the member that
\* stores the decimal spelling of the value
C13_Witness ==
    \E m \in DOMAIN messages :
        /\ RoutingReturned(m) /\ uses_nid(SourceOf(m).group)
        /\ messages[m].payload_nid = PyNone
        /\ SourceOf(m).nid = PyStr(<<"0","x","A","B","C","D","E","F">>)
        /\ devices["B"].nid = PyStr(<<"1","1","2","5","9","3","7","5">>)
        /\ "B" \in Members(m) /\ "B" \in RoutedTargets(m)

\* the Device table with every NID set to NULL
WithoutNids(devs) == [d \in DOMAIN devs |-> [devs[d] EXCEPT !.nid = PyNone]]

\* C14: in a group that does not use NIDs (type open) the targets of a
\* message are those of the same routing with every device NID NULL and no
\* payload nid: runs that differ only in NIDs have the same targets.
C14_OpenGroupIgnoresNids ==
    \A m \in DOMAIN messages :
        (RoutingReturned(m) /\ GroupTable[SourceOf(m).group].group_type = "open") =>
            RoutedTargets(m) =
                route_candidates(WithoutNids(devices), PyNone, messages[m].source_device)
\* in an open group a message with a payload nid reached a member whose
\* stored NID matches neither the payload nid nor the NID of the source
C14_Witness ==
    \E m \in DOMAIN messages :
        /\ RoutingReturned(m)
        /\ GroupTable[SourceOf(m).group].group_type = "open"
        /\ messages[m].payload_nid = PyStr(<<"9","9","9","9","9","9","9">>)
        /\ SourceOf(m).nid = PyStr(<<"0","x","1","2","3","4","5","6">>)
        /\ devices["B"].nid = PyStr(<<"0","x","a","b","c","d","e","f">>)
        /\ "B" \in RoutedTargets(m)

C16_EntriesOnlyForActiveMembers ==
    \A i \in DOMAIN inbox :
        LET d == inbox[i].device
            m == inbox[i].message
        IN  /\ devices[d].active
            /\ devices[d].group = SourceOf(m).group
            /\ d # messages[m].source_device
\* a message was routed to C while B, in the same group and storing the
\* source's NID, is inactive and got no entry, and the inactive devices of
\* the other group got none
C16_Witness ==
    \E m \in DOMAIN messages :
        /\ RoutingReturned(m)
        /\ "C" \in RoutedTargets(m)
        /\ ~devices["B"].active /\ devices["B"].group = SourceOf(m).group
        /\ devices["B"].nid = SourceOf(m).nid /\ Truthy(SourceOf(m).nid)
        /\ RoutedTargets(m) = {"C"}

\* C17: in a group that uses NIDs, with no distance predicate in play, when
\* the payload carries a nid that is a number or spells one (0 included),
\* the NID step matches the stored NIDs against that value, whatever the NID
\* of the source device: a member is a target if and only if its stored NID
\* is a variant of the payload nid or a broadcast spelling.
C17_PayloadNidOverrides ==
    \A m \in DOMAIN messages :
        (/\ RoutingReturned(m)
         /\ uses_nid(SourceOf(m).group) /\ NoDistanceInPlay(m)
         /\ messages[m].payload_nid # PyNone
         /\ normalize_nid(messages[m].payload_nid) # NoInt)
        => \A d2 \in Members(m) :
              d2 \in RoutedTargets(m)
                 <=> StoredNid(d2) \cap (nid_variants(messages[m].payload_nid) \cup broadcast_values) # {}

\* a NID that is absent (NULL) or empty
Unset(nid) == nid = PyNone \/ nid = PyStr(<<>>)

\* C18: in a group that uses NIDs, when the payload nid and the source NID
\* are both absent or empty and no distance predicate is in play, every
\* active member of the group is a target; in a group that uses distance,
\* when the source has no location or neither owner nor group has a radius,
\* no member is left out for its location.
C18_FailOpen ==
    \A m \in DOMAIN messages :
        LET src == SourceOf(m)
            owner_radius == OwnerTable[src.owner].radius_km
            R == IF owner_radius # NoRadius THEN owner_radius ELSE GroupTable[src.group].radius
        IN  RoutingReturned(m) =>
               /\ (/\ uses_nid(src.group) /\ NoDistanceInPlay(m)
                   /\ Unset(messages[m].payload_nid) /\ Unset(src.nid))
                  => RoutedTargets(m) = Members(m)
               /\ (/\ uses_distance(src.group)
                   /\ src.location = NoLocation \/ R = NoRadius)
                  => \A d2 \in Members(m) :
                        (\/ ~uses_nid(src.group)
                         \/ /\ messages[m].payload_nid = PyNone
                            /\ Truthy(src.nid) /\ devices[d2].nid = src.nid)
                        => d2 \in RoutedTargets(m)

\* C19: a delivery attempt that gets a 2xx answer leaves the entry delivered
\* with delivered_at stamped and delivery_attempts as it was, and adds no
\* task to the queue.
C19_SuccessDelivers ==
    [][\A w \in Workers :
          DeliverSuccess(w) =>
              LET i == worker[w].inbox_id
              IN  /\ inbox'[i].status = "delivered"
                  /\ inbox'[i].delivered_at = clock' /\ inbox'[i].delivered_at # 0
                  /\ inbox'[i].delivery_attempts = inbox[i].delivery_attempts
                  /\ queue' = queue]_vars

\* C20: a transport failure of an attempt that read the entry as pending
\* brings delivery_attempts to k, one more than the attempt read; when k is
\* below retry_limit the entry is pending afterwards and exactly one task for
\* it is added to the queue, with a countdown of 2^k seconds.
C20_BackoffDoubles ==
    [][\A w \in Workers :
          DeliverFailure(w) /\ worker[w].row.status = "pending" =>
              \A i \in {worker[w].inbox_id} :
                  LET k == inbox'[i].delivery_attempts
                  IN  /\ k = worker[w].row.delivery_attempts + 1
                      /\ k < TargetOf(i).retry_limit =>
                            /\ inbox'[i].status = "pending"
                            /\ queue' = queue (+) SetToBag({Task(i, 2 ^ k)})]_vars
\* after its second transport failure an entry is pending and its retry
\* waits with a countdown of 4 seconds
C20_Witness ==
    \E i \in DOMAIN inbox :
        /\ inbox[i].status = "pending" /\ inbox[i].delivery_attempts = 2
        /\ http[i].calls = 2 /\ http[i].ok = 0
        /\ TargetOf(i).retry_limit > 2
        /\ CopiesIn(Task(i, 4), queue) = 1 /\ Outstanding(i) = 1

\* C21: an unexpected error in an attempt saves nothing (status,
\* delivery_attempts and timestamps of every entry stay as stored, no webhook
\* call is counted) and puts exactly one task for the entry back on the queue
\* with the fixed countdown of 60 seconds, whatever the device's retry_limit
\* and the attempts made so far; and an entry is failed only after a transport
\* failure.
C21_UnexpectedErrorRetries ==
    /\ [][\A w \in Workers :
             DeliverUnexpected(w) =>
                 /\ inbox' = inbox /\ http' = http
                 /\ queue' = queue (+) SetToBag({Task(worker[w].inbox_id, 60)})]_vars
    /\ [](\A i \in DOMAIN inbox : inbox[i].status = "failed" => http[i].calls > http[i].ok)
\* an entry of a device with retry_limit 0 has had an unexpected error: it is
\* still pending with no attempt counted and no webhook call made, and its
\* retry waits with the countdown of 60 seconds
C21_Witness ==
    \E i \in DOMAIN inbox :
        /\ TargetOf(i).retry_limit = 0
        /\ inbox[i].status = "pending" /\ inbox[i].delivery_attempts = 0
        /\ http[i].calls = 0
        /\ QueuedFor(i) = {Task(i, 60)} /\ Outstanding(i) = 1

\* C22: when a task is taken for an entry whose device has no webhook URL at
\* that moment, the task ends at once: no webhook call is made or started, no
\* row of the inbox changes, and the task leaves the queue with nothing put
\* in its place.
C22_NoWebhookNoOp ==
    [][\A w \in Workers : \A task \in BagToSet(queue) :
          DeliverLoad(w, task) /\ devices[inbox[task.inbox_id].device].webhook_url = "" =>
              /\ inbox' = inbox /\ http' = http /\ messages' = messages
              /\ worker'[w].pc = "idle"
              /\ queue' = queue (-) SetToBag({task})]_vars
\* an entry failed once and its retry was queued; the device's webhook URL was
\* then removed and the retry ran: one call made, still pending with one
\* attempt counted, nothing queued or running for it
C22_Witness ==
    \E i \in DOMAIN inbox :
        /\ TargetOf(i).webhook_url = "" /\ TargetOf(i).retry_limit > 1
        /\ inbox[i].status = "pending" /\ inbox[i].delivery_attempts = 1
        /\ http[i].calls = 1 /\ http[i].ok = 0
        /\ Outstanding(i) = 0

\* the device a message originates from
Originator(i) == messages[inbox[i].message].source_device
\* C23: the inbox read changes no table, queue or process, and answers with
\* exactly the device's pending entries; with hid given, exactly those of them
\* whose message was sent by the device with that hid; with nid given, exactly
\* those of them whose message was sent by a device with that NID.
C23_ListPendingExact ==
    [][\A device \in InboxDevices : \A nid \in InboxNidParams : \A hid \in InboxHidParams :
          ListPending(device, nid, hid) =>
              /\ UNCHANGED <<devices, messages, inbox, queue, worker, router, acker, clock, http,
                             registry>>
              /\ response'.body =
                    {i \in DOMAIN inbox :
                        /\ inbox[i].device = device /\ inbox[i].status = "pending"
                        /\ hid # "" => DeviceHid[Originator(i)] = hid
                        /\ Truthy(nid) => devices[Originator(i)].nid = nid}]_vars

\* C24: when the candidate query cannot be executed, route_message ends with
\* an exception and the view answers 500, while a call that finds zero targets
\* answers 201; the Message row is still there and the message has no
\* InboxEntry, and nothing was scheduled.
C24_RoutingUnavailable ==
    /\ [][\A r \in Routers : \A m \in MessageIds :
             RouteQueryFails(r, m) =>
                 /\ router'[r].pc = "unavailable"
                 /\ messages' = messages /\ inbox' = inbox /\ queue' = queue]_vars
    /\ [](\A r \in Routers :
             /\ router[r].pc = "unavailable" =>
                   /\ response_status(r) = 500
                   /\ router[r].message \in DOMAIN messages
                   /\ EntriesOf(router[r].message) = {}
                   /\ queue = EmptyBag
             /\ router[r].pc = "returned" /\ router[r].created = <<>> => response_status(r) = 201)
\* the query failed for a message that has targets: the row of the message
\* exists, the message has no entry and the caller has the error
C24_Witness ==
    \E r \in Routers :
        /\ router[r].pc = "unavailable" /\ response_status(r) = 500
        /\ router[r].message \in DOMAIN messages
        /\ TargetsOf(router[r].message) # {}
        /\ EntriesOf(router[r].message) = {}

\* C25: the discovery query for a device returns exactly the devices that
\* route_message would target for a message of that device without a NID in
\* its payload, whatever the device's NID (absent and blank included), and it
\* creates no entry and schedules nothing.
C25_RangeEqualsRouting ==
    [][\A device \in RangeDevices :
          NetworkRange(device) =>
              /\ response'.body = route_candidates(devices, PyNone, device)
              /\ inbox' = inbox /\ queue' = queue /\ messages' = messages]_vars

\* C26: once a Message row exists, the only step that changes any of its
\* fields is the save of an acknowledge request for that message; routing,
\* delivery attempts and every other operation leave the row as it is.
C26_MessageOnlyChangedByAck ==
    [][\A m \in MessageIds :
          m \in DOMAIN messages /\ messages'[m] # messages[m] =>
              \E a \in Ackers : AckSaveMessage(a) /\ acker[a].message_id = m]_vars

\* C27: a device never has more than MAX_USERS associated users, however the
\* calls of add_user follow one another or overlap; a call that finds
\* MAX_USERS users raises ValueError and leaves the set as it is; a call that
\* goes on adds at most its own user.
C27_AtMostSixUsers ==
    /\ [](Cardinality(users) <= MAX_USERS)
    /\ [][\A a \in Adders : \A user \in Users :
             AddUserCount(a, user) /\ Cardinality(users) >= MAX_USERS =>
                 adder'[a].pc = "raised" /\ users' = users]_vars
    /\ [][\A a \in Adders : AddUserAdd(a) => users' \ users \subseteq {adder[a].user}]_vars

\* C30: once a call of ensure_default_groups has returned and none is between
\* its check and its inserts, the Group table holds exactly six rows, one of
\* each type, however the calls followed one another or overlapped; a call
\* that finds a row creates nothing and returns False.
C30_SixDefaultGroups ==
    /\ []((/\ \E b \in Booters : booter[b].pc \in {"returned_true", "returned_false"}
           /\ \A b \in Booters : booter[b].pc # "create")
          => /\ Len(groups) = 6
             /\ \A t \in {"private", "exclusive", "open", "data_logging", "enhanced", "location"} :
                   Cardinality({i \in DOMAIN groups : groups[i].group_type = t}) = 1)
    /\ [][\A b \in Booters :
             BootExists(b) /\ Len(groups) > 0 =>
                 booter'[b].pc = "returned_false" /\ groups' = groups]_vars

\* C28: the save of an acknowledge request changes nothing of the row except
\* status and acknowledged_at, whatever delivery attempts ran since the
\* request loaded the row; and an entry whose attempts have all failed has had
\* at most retry_limit webhook calls (retry_limit >= 1).
C28_AckKeepsDeliveryFields ==
    /\ [][\A a \in Ackers :
             AckSaveEntry(a) =>
                 \A i \in {acker[a].inbox_id} :
                     /\ inbox'[i].delivery_attempts = inbox[i].delivery_attempts
                     /\ inbox'[i].delivered_at = inbox[i].delivered_at
                     /\ inbox'[i].device = inbox[i].device
                     /\ inbox'[i].message = inbox[i].message]_vars
    /\ [](\A i \in DOMAIN inbox :
             http[i].ok = 0 /\ TargetOf(i).retry_limit >= 1 => http[i].calls <= TargetOf(i).retry_limit)

\* C29: when a call of route_message has ended with an error, no entry that
\* the call created is in the table; and once the calls for a message have
\* ended, the message has entries for all of its targets or for none.
C29_RoutingAllOrNothing ==
    /\ \A r \in Routers :
          router[r].pc \in {"raised", "unavailable"} =>
              \A k \in 1..Len(router[r].created) : router[r].created[k] \notin DOMAIN inbox
    /\ \A m \in DOMAIN messages :
          Routed(m) /\ RoutingFinished(m) =>
              \/ EntriesOf(m) = {}
              \/ {inbox[i].device : i \in EntriesOf(m)} = TargetsOf(m)

====
